---- MODULE Spec2Model ----
(***************************************************************************)
(* Library management service: the borrowing lifecycle and late-fee engine *)
(* of library_service.py over the catalog store and the borrow ledger.     *)
(*                                                                         *)
(* Time is counted in ticks, TicksPerDay ticks to a day.  Money is counted *)
(* in cents: every amount the code computes is a multiple of 0.50, which   *)
(* binary floating point represents exactly.                               *)
(***************************************************************************)
EXTENDS Integers, Sequences, FiniteSets, TLC

VARIABLES
    books,      \* catalog store: book id -> row (ids are 1..Len(books))
    records,    \* borrow ledger: record id -> row, in insertion order
    now,        \* the wall clock that datetime.now() reads
    last,       \* the last completed call of the sequential client
    procs       \* concurrent request handlers: their position and locals

vars == <<books, records, now, last, procs>>

---------------------------------------------------------------------------
(* Bounds of the model.                                                    *)

TicksPerDay == 2
NumBooks == 2
MaxCopies == 2
MaxRecords == 2
CapCopies == 3
MaxCapRecords == 6
MaxFeeDays == 30
MaxConcRecords == 3
MaxCalls == 2
NumProcs == 2
MaxFeeRecords == 1
MaxBorrowTick == 1
MaxAddBooks == 2
MaxStatusRecords == 3
StatusJumpDays == 18
MaxStatusJumps == 2
MaxAddRecords == 1
MaxPayDays == 3

(* Policy constants of the code.                                           *)

LoanDays == 14
BorrowLimit == 5
MaxTitleLen == 200
MaxAuthorLen == 100
IsbnLen == 13

LoanTicks == LoanDays * TicksPerDay

\* a NULL column
NULL == <<>>

---------------------------------------------------------------------------
(* Patron ids are strings; a string is a sequence of characters.           *)

AsciiDigits == {"0", "1", "2", "3", "4", "5", "6", "7", "8", "9"}

\* characters for which str.isdigit() is true: the ASCII digits and the
\* other Unicode digits (SUPERSCRIPT TWO stands for them)
IsDigitChar == AsciiDigits \cup {"SUPERSCRIPT TWO"}

isdigit(s) == Len(s) > 0 /\ \A i \in 1..Len(s) : s[i] \in IsDigitChar

Patron1 == <<"1", "2", "3", "4", "5", "6">>
Patron2 == <<"6", "5", "4", "3", "2", "1">>
PatronShort == <<"1", "2", "3", "4", "5">>
PatronAlpha == <<"1", "2", "a", "4", "5", "6">>
PatronEmpty == <<>>

ValidPatrons == {Patron1, Patron2}
PatronInputs == ValidPatrons \cup {PatronAlpha}
BookInputs == 1..(NumBooks + 1)

\* the patrons whose requests process i handles: different processes serve
\* different patrons
ConcPatrons(i) == {IF i % 2 = 1 THEN Patron1 ELSE Patron2, PatronAlpha}

\* not (not patron_id or not patron_id.isdigit() or len(patron_id) != 6)
ValidPatronId(patron_id) ==
    ~ (patron_id = <<>> \/ ~ isdigit(patron_id) \/ Len(patron_id) # 6)

---------------------------------------------------------------------------
(* The arguments of add_book_to_catalog.                                   *)

Whitespace == {" ", "\t", "\n"}

RECURSIVE lstrip(_)
lstrip(s) ==
    IF s # <<>> /\ Head(s) \in Whitespace THEN lstrip(Tail(s)) ELSE s

RECURSIVE rstrip(_)
rstrip(s) ==
    IF s # <<>> /\ s[Len(s)] \in Whitespace
    THEN rstrip(SubSeq(s, 1, Len(s) - 1))
    ELSE s

\* str.strip()
strip(s) == rstrip(lstrip(s))

\* a string of n times the character ch
Repeat(ch, n) == [i \in 1..n |-> ch]

TitleEmpty == <<>>
TitleBlank == <<" ", " ">>
TitlePadded == <<" ", "C", "o", "d", "e", " ">>
Title200 == Repeat("t", MaxTitleLen)
Title201 == Repeat("t", MaxTitleLen + 1)
TitleInputs == {TitleEmpty, TitleBlank, TitlePadded, Title200, Title201}

AuthorBlank == <<" ">>
AuthorPadded == <<" ", "B", "o", "b", "\t">>
Author100 == Repeat("a", MaxAuthorLen)
Author101 == Repeat("a", MaxAuthorLen + 1)
AuthorInputs == {AuthorBlank, AuthorPadded, Author100, Author101}

Isbn1 == <<"9", "7", "8", "0", "1", "3", "2", "3", "5", "0", "8", "8", "4">>
Isbn2 == <<"1", "2", "3", "4", "5", "6", "7", "8", "9", "0", "1", "2", "3">>
IsbnShort == <<"1", "2", "3", "4", "5", "6", "7", "8", "9", "0", "1", "2">>
IsbnAlpha == <<"1", "2", "3", "4", "5", "6", "7", "8", "9", "0", "1", "2", "X">>
IsbnInputs == {Isbn1, Isbn2, IsbnShort, IsbnAlpha}

\* a Python value passed as total_copies: its type and, for an int, its
\* value
PyInt(n) == [type |-> "int", value |-> n]
PyFloat == [type |-> "float", value |-> 0]
CopiesInputs == {PyInt(0), PyInt(1), PyInt(2), PyFloat}

\* isinstance(v, int)
isinstance_int(v) == v.type = "int"

\* the calls of add_book_to_catalog that are made: every title and author
\* with a good ISBN and count, every ISBN and count with a good title and
\* author, and the calls that break several constraints at once
AddInputs ==
    (TitleInputs \X AuthorInputs \X {Isbn1} \X {PyInt(2)})
    \cup ({TitlePadded} \X {AuthorPadded} \X IsbnInputs \X CopiesInputs)
    \cup ({TitleBlank, TitlePadded} \X {Author101, AuthorPadded}
             \X {IsbnShort, IsbnAlpha, Isbn1} \X {PyInt(0), PyInt(2)})

---------------------------------------------------------------------------
(* Timestamps.  The store keeps a datetime as an ISO string, here the pair *)
(* <<day, tick of the day>>; datetime.fromisoformat parses it back.        *)

isoformat(t) == <<t \div TicksPerDay, t % TicksPerDay>>

fromisoformat(s) == s[1] * TicksPerDay + s[2]

\* a day count that rounds a started day up
days_RoundedUp(delta) == (delta + TicksPerDay - 1) \div TicksPerDay

\* timedelta.days of a positive difference: whole days, rounded down
days(delta) == delta \div TicksPerDay

---------------------------------------------------------------------------
(* Messages.                                                               *)

MsgTitleRequired == "Title is required."
MsgTitleTooLong == "Title must be less than 200 characters."
MsgAuthorRequired == "Author is required."
MsgAuthorTooLong == "Author must be less than 100 characters."
MsgIsbnLength == "ISBN must be exactly 13 digits."
MsgCopies == "Total copies must be a positive integer."
MsgIsbnExists == "A book with this ISBN already exists."
MsgBookAdded == "Book has been successfully added to the catalog."
MsgDbBook == "Database error occurred while adding the book."
MsgInvalidPatron == "Invalid patron ID. Must be exactly 6 digits."
MsgBookNotFound == "Book not found."
MsgNotAvailable == "This book is currently not available."
MsgLimit == "You have reached the maximum borrowing limit of 5 books."
MsgBorrowed == "Successfully borrowed. Due date."
MsgNotBorrowed == "This book is not currently borrowed by you or has already been returned."
MsgReturnedFee == "Successfully returned. Late fee."
MsgReturnedNoFee == "Successfully returned. No late fee."
MsgDbBorrowRecord == "Database error occurred while creating borrow record."
MsgDbAvailability == "Database error occurred while updating book availability."
MsgDbReturnRecord == "Database error occurred while updating return record."
StatusNotBorrowed == "This book is not currently borrowed by you."
StatusNotOverdue == "Book is not overdue."
StatusCalculated == "Late fee calculated."

---------------------------------------------------------------------------
(* The store: catalog and borrow ledger.                                   *)

\* lookup-by-id: the row, or nothing
get_book_by_id(book_id) ==
    IF book_id \in DOMAIN books THEN <<books[book_id]>> ELSE <<>>

\* lookup-by-isbn: the row with exactly this ISBN, or nothing
get_book_by_isbn(isbn) ==
    IF \E b \in DOMAIN books : books[b].isbn = isbn
    THEN <<books[CHOOSE b \in DOMAIN books : books[b].isbn = isbn]>>
    ELSE <<>>

\* insert: a new row under the next book id
insert_book(bks, title, author, isbn, total_copies, available_copies) ==
    Append(bks, [title |-> title, author |-> author, isbn |-> isbn,
                 total_copies |-> total_copies,
                 available_copies |-> available_copies])

ActiveIds(recs, patron_id, book_id) ==
    {i \in DOMAIN recs : /\ recs[i].patron_id = patron_id
                         /\ recs[i].book_id = book_id
                         /\ recs[i].return_date = NULL}

PatronActiveIds(recs, patron_id) ==
    {i \in DOMAIN recs : recs[i].patron_id = patron_id /\ recs[i].return_date = NULL}

BookActiveIds(recs, book_id) ==
    {i \in DOMAIN recs : recs[i].book_id = book_id /\ recs[i].return_date = NULL}

\* number of active records of the patron, over all books
get_patron_borrow_count(patron_id) ==
    Cardinality(PatronActiveIds(records, patron_id))

SetMin(S) == CHOOSE x \in S : \A y \in S : x <= y

\* find-active-record: the (first) active record of the pair, or nothing
get_borrow_record(patron_id, book_id) ==
    IF ActiveIds(records, patron_id, book_id) = {}
    THEN <<>>
    ELSE <<records[SetMin(ActiveIds(records, patron_id, book_id))]>>

\* insert-active-record
insert_borrow_record(recs, patron_id, book_id, borrow_date, due_date) ==
    Append(recs, [patron_id |-> patron_id, book_id |-> book_id,
                  borrow_date |-> isoformat(borrow_date),
                  due_date |-> isoformat(due_date),
                  return_date |-> NULL])

\* adjust-available-copies(book_id, delta)
update_book_availability(bks, book_id, change) ==
    [bks EXCEPT ![book_id].available_copies = @ + change]

\* finalize-return(patron_id, book_id, return_timestamp): the active
\* record(s) of the pair get the return timestamp
update_borrow_record_return_date(recs, patron_id, book_id, return_date) ==
    [i \in DOMAIN recs |->
        IF i \in ActiveIds(recs, patron_id, book_id)
        THEN [recs[i] EXCEPT !.return_date = isoformat(return_date)]
        ELSE recs[i]]

\* list-active-records(patron_id): the patron's active records in
\* insertion order, their dates parsed, each annotated with is_overdue
get_patron_borrowed_books(patron_id) ==
    LET active == SelectSeq(records, LAMBDA r : /\ r.patron_id = patron_id
                                                /\ r.return_date = NULL)
    IN  [i \in 1..Len(active) |->
            [book_id |-> active[i].book_id,
             borrow_date |-> fromisoformat(active[i].borrow_date),
             due_date |-> fromisoformat(active[i].due_date),
             is_overdue |-> now > fromisoformat(active[i].due_date)]]

\* list-all-records(patron_id): every record of the patron, active or
\* returned, in insertion order
get_patron_borrowing_history(patron_id) ==
    LET all == SelectSeq(records, LAMBDA r : r.patron_id = patron_id)
    IN  [i \in 1..Len(all) |->
            [book_id |-> all[i].book_id,
             borrow_date |-> fromisoformat(all[i].borrow_date),
             due_date |-> fromisoformat(all[i].due_date),
             return_date |-> IF all[i].return_date = NULL THEN NULL
                             ELSE <<fromisoformat(all[i].return_date)>>,
             is_returned |-> all[i].return_date # NULL]]

---------------------------------------------------------------------------
(* Late fee, as each code path computes it (in cents).                     *)

Min(a, b) == IF a <= b THEN a ELSE b

\* the fee of a return without the 15.00 cap
ReturnLateFee_NoCap(return_date, due_date) ==
    IF return_date > due_date
    THEN LET days_overdue == days(return_date - due_date)
         IN  IF days_overdue <= 7
             THEN days_overdue * 50
             ELSE (7 * 50) + ((days_overdue - 7) * 100)
    ELSE 0

\* return_book_by_patron, lines 92-100
ReturnLateFee(return_date, due_date) ==
    IF return_date > due_date
    THEN LET days_overdue == days(return_date - due_date)
         IN  Min(IF days_overdue <= 7
                 THEN days_overdue * 50
                 ELSE (7 * 50) + ((days_overdue - 7) * 100),
                 1500)
    ELSE 0

\* the queried fee with the first-week rate kept after day 7
QueryLateFee_FlatRate(days_overdue) == Min(days_overdue * 50, 1500)

\* calculate_late_fee_for_book, lines 151-157
QueryLateFee(days_overdue) ==
    Min(IF days_overdue <= 7
        THEN days_overdue * 50
        ELSE (7 * 50) + ((days_overdue - 7) * 100),
        1500)

\* the fee of a status row without the 15.00 cap
StatusLateFee_NoCap(book, current_date) ==
    IF book.is_overdue
    THEN LET days_overdue == days(current_date - book.due_date)
         IN  IF days_overdue <= 7
             THEN days_overdue * 50
             ELSE (7 * 50) + ((days_overdue - 7) * 100)
    ELSE 0

\* get_patron_status_report, lines 193-199: the fee of one row of
\* currently_borrowed
StatusLateFee(book, current_date) ==
    IF book.is_overdue
    THEN LET days_overdue == days(current_date - book.due_date)
         IN  Min(IF days_overdue <= 7
                 THEN days_overdue * 50
                 ELSE (7 * 50) + ((days_overdue - 7) * 100),
                 1500)
    ELSE 0

---------------------------------------------------------------------------
(* Calls of the sequential client: each handler runs to completion.        *)

NoCall ==
    [op |-> "none", patron_id |-> <<>>, book_id |-> 0, success |-> FALSE,
     message |-> "", fee |-> 0, days_overdue |-> 0, book |-> <<>>]

Done(op, patron_id, book_id, success, message, fee, days_overdue, book) ==
    [op |-> op, patron_id |-> patron_id, book_id |-> book_id,
     success |-> success, message |-> message, fee |-> fee,
     days_overdue |-> days_overdue, book |-> book]

\* the result of an add_book_to_catalog call
Added(success, message) ==
    [op |-> "add_book", patron_id |-> <<>>, book_id |-> 0,
     success |-> success, message |-> message, fee |-> 0,
     days_overdue |-> 0, book |-> <<>>]

\* lines 19-38: an early return of add_book_to_catalog
RejectAdd(message) ==
    /\ last' = Added(FALSE, message)
    /\ books' = books

\* line 30: the form of the ISBN
BadIsbn(isbn) == Len(isbn) # IsbnLen

\* a duplicate check that finds nothing
IsbnTaken_Never(existing) == FALSE

\* lines 36-37: a book with this ISBN exists
IsbnTaken(existing) == existing # <<>>

\* an insertion of the title and author as given
AddWrites_Untrimmed(title, author, isbn, total_copies) ==
    books' = insert_book(books, title, author, isbn,
                         total_copies.value, total_copies.value)

\* line 40: the store write of an add
AddWrites(title, author, isbn, total_copies) ==
    books' = insert_book(books, strip(title), strip(author), isbn,
                         total_copies.value, total_copies.value)

\* the handler, with the result of its store write
AddHandler(title, author, isbn, total_copies, success) ==
    LET title_strip == strip(title)
        author_strip == strip(author)
    IN  /\ IF title = <<>> \/ title_strip = <<>>
           THEN RejectAdd(MsgTitleRequired)
           ELSE IF Len(title_strip) > MaxTitleLen
           THEN RejectAdd(MsgTitleTooLong)
           ELSE IF author = <<>> \/ author_strip = <<>>
           THEN RejectAdd(MsgAuthorRequired)
           ELSE IF Len(author_strip) > MaxAuthorLen
           THEN RejectAdd(MsgAuthorTooLong)
           ELSE IF BadIsbn(isbn)
           THEN RejectAdd(MsgIsbnLength)
           ELSE IF ~ isinstance_int(total_copies) \/ total_copies.value <= 0
           THEN RejectAdd(MsgCopies)
           ELSE IF IsbnTaken(get_book_by_isbn(isbn))
           THEN RejectAdd(MsgIsbnExists)
           ELSE IF success
           THEN /\ AddWrites(title, author, isbn, total_copies)
                /\ last' = Added(TRUE, MsgBookAdded)
           ELSE RejectAdd(MsgDbBook)
        /\ UNCHANGED <<records, now, procs>>

\* the handler over a store whose writes succeed
add_book_to_catalog(title, author, isbn, total_copies) ==
    AddHandler(title, author, isbn, total_copies, TRUE)

\* an availability check that lets every book through
NotAvailable_Never(book) == FALSE

\* line 56: no copy left
NotAvailable(book) == book[1].available_copies <= 0

\* the cap compared with > instead of >=
AtBorrowLimit_Exclusive(current_borrowed) == current_borrowed > BorrowLimit

\* line 60: the patron is at the borrowing cap
AtBorrowLimit(current_borrowed) == current_borrowed >= BorrowLimit

\* a loan period one day longer
DueDate_LongerLoan(borrow_date) == borrow_date + LoanTicks + TicksPerDay

\* line 64: due_date = borrow_date + timedelta(days=14)
DueDate(borrow_date) == borrow_date + LoanTicks

\* a rejected borrow that has already taken a copy of the book
RejectBorrow_AfterDecrement(patron_id, book_id, message, book) ==
    /\ last' = Done("borrow", patron_id, book_id, FALSE, message, 0, 0, book)
    /\ books' = IF book = <<>> THEN books
                ELSE update_book_availability(books, book_id, 0 - 1)
    /\ records' = records

\* lines 50, 54, 57, 61: an early return of borrow_book_by_patron
RejectBorrow(patron_id, book_id, message, book) ==
    /\ last' = Done("borrow", patron_id, book_id, FALSE, message, 0, 0, book)
    /\ UNCHANGED <<books, records>>

\* a borrow that takes the pair's returned record, when there is one, and
\* makes it active again
BorrowWrites_Reopen(patron_id, book_id, borrow_date, due_date) ==
    LET returned == {i \in DOMAIN records : /\ records[i].patron_id = patron_id
                                            /\ records[i].book_id = book_id
                                            /\ records[i].return_date # NULL}
    IN  /\ records' = IF returned = {}
                      THEN insert_borrow_record(records, patron_id, book_id,
                                                borrow_date, due_date)
                      ELSE [records EXCEPT ![SetMin(returned)] =
                               [@ EXCEPT !.borrow_date = isoformat(borrow_date),
                                         !.due_date = isoformat(due_date),
                                         !.return_date = NULL]]
        /\ books' = update_book_availability(books, book_id, 0 - 1)

\* lines 66-72: the two store writes of a borrow
BorrowWrites(patron_id, book_id, borrow_date, due_date) ==
    /\ records' = insert_borrow_record(records, patron_id, book_id,
                                       borrow_date, due_date)
    /\ books' = update_book_availability(books, book_id, 0 - 1)

\* lines 66-72 when update_book_availability fails: the record inserted at
\* line 66 stays
BorrowInsertOnly(patron_id, book_id, borrow_date, due_date) ==
    /\ records' = insert_borrow_record(records, patron_id, book_id,
                                       borrow_date, due_date)
    /\ books' = books

\* the handler, with the results of its two store writes: a write that
\* fails returns False and writes nothing
BorrowHandler(patron_id, book_id, borrow_success, availability_success) ==
    LET book == get_book_by_id(book_id)
        borrow_date == now
        due_date == DueDate(borrow_date)
    IN  /\ IF ~ ValidPatronId(patron_id)
           THEN RejectBorrow(patron_id, book_id, MsgInvalidPatron, <<>>)
           ELSE IF book = <<>>
           THEN RejectBorrow(patron_id, book_id, MsgBookNotFound, book)
           ELSE IF NotAvailable(book)
           THEN RejectBorrow(patron_id, book_id, MsgNotAvailable, book)
           ELSE IF AtBorrowLimit(get_patron_borrow_count(patron_id))
           THEN RejectBorrow(patron_id, book_id, MsgLimit, book)
           ELSE IF ~ borrow_success
           THEN RejectBorrow(patron_id, book_id, MsgDbBorrowRecord, book)
           ELSE IF ~ availability_success
           THEN /\ BorrowInsertOnly(patron_id, book_id, borrow_date, due_date)
                /\ last' = Done("borrow", patron_id, book_id, FALSE,
                                MsgDbAvailability, 0, 0, book)
           ELSE /\ BorrowWrites(patron_id, book_id, borrow_date, due_date)
                /\ last' = Done("borrow", patron_id, book_id, TRUE,
                                MsgBorrowed, 0, 0, book)
        /\ UNCHANGED <<now, procs>>

\* the handler over a store whose writes succeed
borrow_book_by_patron(patron_id, book_id) ==
    BorrowHandler(patron_id, book_id, TRUE, TRUE)

\* a rejected return that has already given the copy back
RejectReturn_AfterIncrement(patron_id, book_id, message, book) ==
    /\ last' = Done("return", patron_id, book_id, FALSE, message, 0, 0, book)
    /\ books' = IF book = <<>> THEN books
                ELSE update_book_availability(books, book_id, 1)
    /\ records' = records

\* lines 80, 84, 88: an early return of return_book_by_patron
RejectReturn(patron_id, book_id, message, book) ==
    /\ last' = Done("return", patron_id, book_id, FALSE, message, 0, 0, book)
    /\ UNCHANGED <<books, records>>

\* a return that finalizes the record and forgets the copy count
ReturnWrites_NoIncrement(patron_id, book_id, return_date) ==
    /\ records' = update_borrow_record_return_date(records, patron_id,
                                                   book_id, return_date)
    /\ books' = books

\* lines 102-108: the two store writes of a return
ReturnWrites(patron_id, book_id, return_date) ==
    /\ records' = update_borrow_record_return_date(records, patron_id,
                                                   book_id, return_date)
    /\ books' = update_book_availability(books, book_id, 1)

\* lines 110-113
ReturnMessage(late_fee) ==
    IF late_fee > 0 THEN MsgReturnedFee ELSE MsgReturnedNoFee

\* lines 102-108 when update_book_availability fails: the return date
\* written at line 102 stays
ReturnFinalizeOnly(patron_id, book_id, return_date) ==
    /\ records' = update_borrow_record_return_date(records, patron_id,
                                                   book_id, return_date)
    /\ books' = books

\* the handler, with the results of its two store writes
ReturnHandler(patron_id, book_id, return_success, availability_success) ==
    LET book == get_book_by_id(book_id)
        borrow_record == get_borrow_record(patron_id, book_id)
        return_date == now
    IN  /\ IF ~ ValidPatronId(patron_id)
           THEN RejectReturn(patron_id, book_id, MsgInvalidPatron, <<>>)
           ELSE IF book = <<>>
           THEN RejectReturn(patron_id, book_id, MsgBookNotFound, book)
           ELSE IF borrow_record = <<>>
           THEN RejectReturn(patron_id, book_id, MsgNotBorrowed, book)
           ELSE LET due_date == fromisoformat(borrow_record[1].due_date)
                    late_fee == ReturnLateFee(return_date, due_date)
                IN  IF ~ return_success
                    THEN /\ last' = Done("return", patron_id, book_id, FALSE,
                                         MsgDbReturnRecord, 0, 0, book)
                         /\ UNCHANGED <<books, records>>
                    ELSE IF ~ availability_success
                    THEN /\ ReturnFinalizeOnly(patron_id, book_id, return_date)
                         /\ last' = Done("return", patron_id, book_id, FALSE,
                                         MsgDbAvailability, 0, 0, book)
                    ELSE /\ ReturnWrites(patron_id, book_id, return_date)
                         /\ last' = Done("return", patron_id, book_id, TRUE,
                                         ReturnMessage(late_fee), late_fee,
                                         IF return_date > due_date
                                         THEN days(return_date - due_date)
                                         ELSE 0,
                                         book)
        /\ UNCHANGED <<now, procs>>

\* the handler over a store whose writes succeed
return_book_by_patron(patron_id, book_id) ==
    ReturnHandler(patron_id, book_id, TRUE, TRUE)

\* a query that marks the record it looked up as returned
QueryStore_Finalizes(patron_id, book_id) ==
    /\ records' = update_borrow_record_return_date(records, patron_id,
                                                   book_id, now)
    /\ books' = books

\* lines 115-163 make no store write
QueryStore(patron_id, book_id) == UNCHANGED <<books, records>>

\* a due-date test that calls a loan overdue at its due instant
NotOverdue_AtDueInstant(current_date, due_date) == current_date < due_date

\* line 144
NotOverdue(current_date, due_date) == current_date <= due_date

\* the answer of a late-fee query, kept with the store lookups the call
\* made before it answered
Answer(patron_id, book_id, fee_amount, days_overdue, status, book, store_calls) ==
    [op |-> "late_fee", patron_id |-> patron_id, book_id |-> book_id,
     success |-> TRUE, message |-> status, fee |-> fee_amount,
     days_overdue |-> days_overdue, book |-> book,
     store_calls |-> store_calls]

calculate_late_fee_for_book(patron_id, book_id) ==
    LET book == get_book_by_id(book_id)
        borrow_record == get_borrow_record(patron_id, book_id)
        current_date == now
    IN  /\ IF ~ ValidPatronId(patron_id)
           THEN last' = Answer(patron_id, book_id, 0, 0, MsgInvalidPatron,
                               <<>>, <<>>)
           ELSE IF book = <<>>
           THEN last' = Answer(patron_id, book_id, 0, 0, MsgBookNotFound,
                               book, <<"get_book_by_id">>)
           ELSE IF borrow_record = <<>>
           THEN last' = Answer(patron_id, book_id, 0, 0, StatusNotBorrowed,
                               book, <<"get_book_by_id", "get_borrow_record">>)
           ELSE LET due_date == fromisoformat(borrow_record[1].due_date)
                IN  IF NotOverdue(current_date, due_date)
                    THEN last' = Answer(patron_id, book_id, 0, 0,
                                        StatusNotOverdue, book,
                                        <<"get_book_by_id", "get_borrow_record">>)
                    ELSE LET days_overdue == days(current_date - due_date)
                         IN  last' = Answer(patron_id, book_id,
                                            QueryLateFee(days_overdue),
                                            days_overdue, StatusCalculated, book,
                                            <<"get_book_by_id", "get_borrow_record">>)
        /\ QueryStore(patron_id, book_id)
        /\ UNCHANGED <<now, procs>>

\* strftime('%Y-%m-%d'): the day of a timestamp
strftime(t) == t \div TicksPerDay

\* a total that counts the first row only
TotalLateFees_FirstOnly(currently_borrowed, current_date) ==
    IF currently_borrowed = <<>>
    THEN 0
    ELSE StatusLateFee(Head(currently_borrowed), current_date)

\* lines 189-200: the loop that adds up the fees of the overdue rows
RECURSIVE TotalLateFees(_, _)
TotalLateFees(currently_borrowed, current_date) ==
    IF currently_borrowed = <<>>
    THEN 0
    ELSE StatusLateFee(Head(currently_borrowed), current_date)
            + TotalLateFees(Tail(currently_borrowed), current_date)

\* lines 204-214
FormatBorrowed(currently_borrowed, current_date) ==
    [i \in 1..Len(currently_borrowed) |->
        LET book == currently_borrowed[i]
        IN  [book_id |-> book.book_id,
             borrow_date |-> strftime(book.borrow_date),
             due_date |-> strftime(book.due_date),
             is_overdue |-> book.is_overdue,
             days_overdue |-> IF book.is_overdue
                              THEN days(current_date - book.due_date)
                              ELSE 0]]

\* a history that leaves out the returned records
FormatHistory_OpenOnly(borrowing_history) ==
    LET open == SelectSeq(borrowing_history, LAMBDA record : ~ record.is_returned)
    IN  [i \in 1..Len(open) |->
            [book_id |-> open[i].book_id,
             borrow_date |-> strftime(open[i].borrow_date),
             due_date |-> strftime(open[i].due_date),
             return_date |-> NULL,
             is_returned |-> open[i].is_returned]]

\* lines 216-226
FormatHistory(borrowing_history) ==
    [i \in 1..Len(borrowing_history) |->
        LET record == borrowing_history[i]
        IN  [book_id |-> record.book_id,
             borrow_date |-> strftime(record.borrow_date),
             due_date |-> strftime(record.due_date),
             return_date |-> IF record.return_date # NULL
                             THEN <<strftime(record.return_date[1])>>
                             ELSE NULL,
             is_returned |-> record.is_returned]]

\* the report of a status call, kept with the call
Report(patron_id, valid, message, currently_borrowed, total_late_fees, current_borrow_count, borrowing_history) ==
    [op |-> "status", patron_id |-> patron_id, book_id |-> 0,
     success |-> valid, message |-> message, fee |-> total_late_fees,
     days_overdue |-> 0, book |-> <<>>,
     currently_borrowed |-> currently_borrowed,
     current_borrow_count |-> current_borrow_count,
     borrowing_history |-> borrowing_history]

get_patron_status_report(patron_id) ==
    LET currently_borrowed == get_patron_borrowed_books(patron_id)
        current_date == now
        borrowing_history == get_patron_borrowing_history(patron_id)
    IN  /\ IF ~ ValidPatronId(patron_id)
           THEN last' = Report(patron_id, FALSE, MsgInvalidPatron,
                               <<>>, 0, 0, <<>>)
           ELSE last' = Report(patron_id, TRUE, "",
                               FormatBorrowed(currently_borrowed, current_date),
                               TotalLateFees(currently_borrowed, current_date),
                               Len(currently_borrowed),
                               FormatHistory(borrowing_history))
        /\ UNCHANGED <<books, records, now, procs>>

---------------------------------------------------------------------------
(* Payment of a late fee through the payment gateway.                      *)

MsgNoFees == "No late fees to pay for this book."
MsgPaymentSuccessful == "Payment successful!"
MsgPaymentFailed == "Payment failed."
MsgPaymentError == "Payment processing error."

\* what process_payment can do with a charge: approve it, decline it, or
\* fail with a fault
GatewayOutcomes == {"approved", "declined", "fault"}

\* the dictionary calculate_late_fee_for_book returns to a caller
fee_info(patron_id, book_id) ==
    LET book == get_book_by_id(book_id)
        borrow_record == get_borrow_record(patron_id, book_id)
        current_date == now
    IN  IF ~ ValidPatronId(patron_id)
        THEN [fee_amount |-> 0, days_overdue |-> 0, status |-> MsgInvalidPatron]
        ELSE IF book = <<>>
        THEN [fee_amount |-> 0, days_overdue |-> 0, status |-> MsgBookNotFound]
        ELSE IF borrow_record = <<>>
        THEN [fee_amount |-> 0, days_overdue |-> 0, status |-> StatusNotBorrowed]
        ELSE LET due_date == fromisoformat(borrow_record[1].due_date)
             IN  IF NotOverdue(current_date, due_date)
                 THEN [fee_amount |-> 0, days_overdue |-> 0,
                       status |-> StatusNotOverdue]
                 ELSE [fee_amount |-> QueryLateFee(days(current_date - due_date)),
                       days_overdue |-> days(current_date - due_date),
                       status |-> StatusCalculated]

\* the result of a pay_late_fees call, kept with the charges the call
\* submitted to the gateway
Paid(patron_id, book_id, success, message, transaction_id, gateway_calls) ==
    [op |-> "pay", patron_id |-> patron_id, book_id |-> book_id,
     success |-> success, message |-> message,
     fee |-> IF gateway_calls = <<>> THEN 0 ELSE gateway_calls[1].amount,
     days_overdue |-> 0, book |-> <<>>,
     transaction_id |-> transaction_id, gateway_calls |-> gateway_calls]

\* a fee check that sends every fee, a zero one too, to the gateway
NoFeesToPay_Never(fee_amount) == FALSE

\* "if fee is zero, reject without contacting the gateway"
NoFeesToPay(fee_amount) == fee_amount <= 0

\* process_payment(patron_id, amount, description): the one charge
Charge(patron_id, amount, book_id) ==
    [patron_id |-> patron_id, amount |-> amount, description |-> book_id]

\* pay_late_fees(patron_id, book_id, gateway); outcome is what the gateway
\* does if it is called
pay_late_fees(patron_id, book_id, outcome) ==
    LET info == fee_info(patron_id, book_id)
        book == get_book_by_id(book_id)
        charge == Charge(patron_id, info.fee_amount, book_id)
    IN  /\ IF ~ ValidPatronId(patron_id)
           THEN last' = Paid(patron_id, book_id, FALSE, MsgInvalidPatron,
                             NULL, <<>>)
           ELSE IF NoFeesToPay(info.fee_amount)
           THEN last' = Paid(patron_id, book_id, FALSE, MsgNoFees, NULL, <<>>)
           ELSE IF book = <<>>
           THEN last' = Paid(patron_id, book_id, FALSE, MsgBookNotFound,
                             NULL, <<>>)
           ELSE IF outcome = "approved"
           THEN last' = Paid(patron_id, book_id, TRUE, MsgPaymentSuccessful,
                             <<"txn">>, <<charge>>)
           ELSE IF outcome = "declined"
           THEN last' = Paid(patron_id, book_id, FALSE, MsgPaymentFailed,
                             NULL, <<charge>>)
           ELSE last' = Paid(patron_id, book_id, FALSE, MsgPaymentError,
                             NULL, <<charge>>)
        /\ UNCHANGED <<books, records, now, procs>>

\* the wall clock advances by dt ticks
Tick(dt) ==
    /\ now' = now + dt
    /\ UNCHANGED <<books, records, last, procs>>

---------------------------------------------------------------------------
(* Concurrent request handlers.  Each store call is one atomic step (the   *)
(* store runs every call in its own transaction); the handler holds no     *)
(* lock between its calls, so the steps of two handlers interleave.        *)

ProcIds == 1..NumProcs

IdleProc ==
    [pc |-> "idle", op |-> "none", patron_id |-> <<>>, book_id |-> 0,
     book |-> <<>>, date |-> 0, late_fee |-> 0, calls |-> 0,
     success |-> FALSE, message |-> ""]

\* the handler of process i returns
Finish(i, success, message) ==
    procs' = [procs EXCEPT ![i].pc = "idle", ![i].success = success,
                           ![i].message = message]

Goto(i, pc) == procs' = [procs EXCEPT ![i].pc = pc]

\* a request arrives; line 49 / line 79: the patron id is validated
Call(i, op, patron_id, book_id) ==
    /\ procs[i].pc = "idle"
    /\ procs[i].calls < MaxCalls
    /\ procs' = [procs EXCEPT ![i] =
                    [IdleProc EXCEPT
                        !.op = op, !.patron_id = patron_id, !.book_id = book_id,
                        !.calls = procs[i].calls + 1,
                        !.pc = IF ~ ValidPatronId(patron_id) THEN "idle"
                               ELSE IF op = "borrow" THEN "b_get_book"
                               ELSE "r_get_book",
                        !.message = IF ~ ValidPatronId(patron_id)
                                    THEN MsgInvalidPatron ELSE ""]]
    /\ UNCHANGED <<books, records, now, last>>

\* borrow_book_by_patron, lines 52-57
BorrowGetBook(i) ==
    LET book == get_book_by_id(procs[i].book_id)
    IN  /\ procs[i].pc = "b_get_book"
        /\ IF book = <<>>
           THEN Finish(i, FALSE, MsgBookNotFound)
           ELSE IF NotAvailable(book)
           THEN Finish(i, FALSE, MsgNotAvailable)
           ELSE procs' = [procs EXCEPT ![i].pc = "b_count", ![i].book = book]
        /\ UNCHANGED <<books, records, now, last>>

\* borrow_book_by_patron, lines 59-64
BorrowCount(i) ==
    /\ procs[i].pc = "b_count"
    /\ IF AtBorrowLimit(get_patron_borrow_count(procs[i].patron_id))
       THEN Finish(i, FALSE, MsgLimit)
       ELSE procs' = [procs EXCEPT ![i].pc = "b_insert", ![i].date = now]
    /\ UNCHANGED <<books, records, now, last>>

\* borrow_book_by_patron, lines 66-68
BorrowInsert(i) ==
    /\ procs[i].pc = "b_insert"
    /\ records' = insert_borrow_record(records, procs[i].patron_id,
                                       procs[i].book_id, procs[i].date,
                                       DueDate(procs[i].date))
    /\ Goto(i, "b_update")
    /\ UNCHANGED <<books, now, last>>

\* borrow_book_by_patron, lines 70-74
BorrowUpdate(i) ==
    /\ procs[i].pc = "b_update"
    /\ books' = update_book_availability(books, procs[i].book_id, 0 - 1)
    /\ Finish(i, TRUE, MsgBorrowed)
    /\ UNCHANGED <<records, now, last>>

\* return_book_by_patron, lines 82-84
ReturnGetBook(i) ==
    LET book == get_book_by_id(procs[i].book_id)
    IN  /\ procs[i].pc = "r_get_book"
        /\ IF book = <<>>
           THEN Finish(i, FALSE, MsgBookNotFound)
           ELSE procs' = [procs EXCEPT ![i].pc = "r_get_record", ![i].book = book]
        /\ UNCHANGED <<books, records, now, last>>

\* return_book_by_patron, lines 86-100
ReturnGetRecord(i) ==
    LET borrow_record == get_borrow_record(procs[i].patron_id, procs[i].book_id)
    IN  /\ procs[i].pc = "r_get_record"
        /\ IF borrow_record = <<>>
           THEN Finish(i, FALSE, MsgNotBorrowed)
           ELSE procs' = [procs EXCEPT
                    ![i].pc = "r_finalize",
                    ![i].date = now,
                    ![i].late_fee =
                        ReturnLateFee(now, fromisoformat(borrow_record[1].due_date))]
        /\ UNCHANGED <<books, records, now, last>>

\* return_book_by_patron, lines 102-104
ReturnFinalize(i) ==
    /\ procs[i].pc = "r_finalize"
    /\ records' = update_borrow_record_return_date(
                      records, procs[i].patron_id, procs[i].book_id, procs[i].date)
    /\ Goto(i, "r_update")
    /\ UNCHANGED <<books, now, last>>

\* return_book_by_patron, lines 106-113
ReturnUpdate(i) ==
    /\ procs[i].pc = "r_update"
    /\ books' = update_book_availability(books, procs[i].book_id, 1)
    /\ Finish(i, TRUE, ReturnMessage(procs[i].late_fee))
    /\ UNCHANGED <<records, now, last>>

---------------------------------------------------------------------------
(* Initial states.                                                         *)

NewBook(total_copies) ==
    [total_copies |-> total_copies, available_copies |-> total_copies]

\* a catalog of NumBooks books, none of them lent: book 1 has a single
\* copy, the others several
Init ==
    /\ books = [b \in 1..NumBooks |-> NewBook(Min(b, MaxCopies))]
    /\ records = <<>>
    /\ now = 0
    /\ last = NoCall
    /\ procs = [i \in ProcIds |-> IdleProc]

\* a catalog of NumBooks books of CapCopies copies each
InitCap ==
    /\ books = [b \in 1..NumBooks |-> NewBook(CapCopies)]
    /\ records = <<>>
    /\ now = 0
    /\ last = NoCall
    /\ procs = [i \in ProcIds |-> IdleProc]

\* an empty catalog
InitAdd ==
    /\ books = <<>>
    /\ records = <<>>
    /\ now = 0
    /\ last = NoCall
    /\ procs = [i \in ProcIds |-> IdleProc]

(* The sequential client, any patron and book, with a coarse clock: one    *)
(* jump to the day after the loans made so far fall due.                   *)

Next ==
    \/ \E patron_id \in PatronInputs, book_id \in BookInputs :
          /\ borrow_book_by_patron(patron_id, book_id)
          /\ Len(records') <= MaxRecords
    \/ \E patron_id \in PatronInputs, book_id \in BookInputs :
          return_book_by_patron(patron_id, book_id)
    \/ \E patron_id \in PatronInputs, book_id \in BookInputs :
          calculate_late_fee_for_book(patron_id, book_id)
    \/ /\ now < LoanTicks + TicksPerDay
       /\ Tick(LoanTicks + TicksPerDay)

Spec == Init /\ [][Next]_vars

(* One patron borrowing up to the cap, without the clock.                  *)

NextCap ==
    \/ \E book_id \in 1..NumBooks :
          /\ borrow_book_by_patron(Patron1, book_id)
          /\ Len(records') <= MaxCapRecords
    \/ \E book_id \in 1..NumBooks :
          return_book_by_patron(Patron1, book_id)

SpecCap == InitCap /\ [][NextCap]_vars

(* Borrow requests only, up to the cap and until the copies run out; some *)
(* come with a malformed patron id or an unknown book id.                  *)

NextReject ==
    \E patron_id \in {Patron1, PatronAlpha}, book_id \in BookInputs :
       /\ borrow_book_by_patron(patron_id, book_id)
       /\ Len(records') <= MaxCapRecords

SpecReject == InitCap /\ [][NextReject]_vars

(* One loan followed tick by tick through its overdue days.                *)

NextFee ==
    \/ /\ now <= MaxBorrowTick
       /\ borrow_book_by_patron(Patron1, 1)
       /\ Len(records') <= MaxFeeRecords
    \/ return_book_by_patron(Patron1, 1)
    \/ \E patron_id \in {Patron1, PatronAlpha}, book_id \in {1, NumBooks + 1} :
          calculate_late_fee_for_book(patron_id, book_id)
    \/ get_patron_status_report(Patron1)
    \/ /\ now < MaxBorrowTick + LoanTicks + (MaxFeeDays * TicksPerDay)
       /\ Tick(1)

SpecFee == Init /\ [][NextFee]_vars

(* The sequential client over a store whose writes may fail.              *)

NextFail ==
    \/ \E patron_id \in PatronInputs, book_id \in BookInputs :
          \E borrow_success \in BOOLEAN, availability_success \in BOOLEAN :
             /\ BorrowHandler(patron_id, book_id, borrow_success,
                              availability_success)
             /\ Len(records') <= MaxRecords
    \/ \E patron_id \in PatronInputs, book_id \in BookInputs :
          \E return_success \in BOOLEAN, availability_success \in BOOLEAN :
             ReturnHandler(patron_id, book_id, return_success,
                           availability_success)

SpecFail == Init /\ [][NextFail]_vars

(* Staff filling the catalog while a patron borrows and returns.           *)

NextAdd ==
    \/ \E args \in AddInputs :
          /\ add_book_to_catalog(args[1], args[2], args[3], args[4])
          /\ Len(books') <= MaxAddBooks
    \/ /\ borrow_book_by_patron(Patron1, 1)
       /\ Len(records') <= MaxAddRecords
    \/ return_book_by_patron(Patron1, 1)

SpecAdd == InitAdd /\ [][NextAdd]_vars

(* Two patrons who borrow and return the copies of one book days apart,    *)
(* and their status reports.                                               *)

NextStatus ==
    \/ \E patron_id \in ValidPatrons :
          /\ borrow_book_by_patron(patron_id, NumBooks)
          /\ Len(records') <= MaxStatusRecords
    \/ \E patron_id \in ValidPatrons :
          return_book_by_patron(patron_id, NumBooks)
    \/ \E patron_id \in PatronInputs :
          get_patron_status_report(patron_id)
    \/ /\ now < MaxStatusJumps * StatusJumpDays * TicksPerDay
       /\ Tick(StatusJumpDays * TicksPerDay)

SpecStatus == Init /\ [][NextStatus]_vars

(* One loan followed tick by tick, and the payments of its late fee.       *)

NextPay ==
    \/ /\ now <= MaxBorrowTick
       /\ borrow_book_by_patron(Patron1, 1)
       /\ Len(records') <= MaxFeeRecords
    \/ return_book_by_patron(Patron1, 1)
    \/ \E patron_id \in {Patron1, PatronAlpha}, book_id \in {1, NumBooks + 1} :
          \E outcome \in GatewayOutcomes :
             pay_late_fees(patron_id, book_id, outcome)
    \/ /\ now < MaxBorrowTick + LoanTicks + (MaxPayDays * TicksPerDay)
       /\ Tick(1)

SpecPay == Init /\ [][NextPay]_vars

(* Concurrent borrow and return requests.                                  *)

NextConc ==
    \/ \E i \in ProcIds : \E patron_id \in ConcPatrons(i), book_id \in BookInputs :
          /\ Len(records) + Cardinality({j \in ProcIds :
                 procs[j].pc \in {"b_get_book", "b_count", "b_insert"}})
                 < MaxConcRecords
          /\ Call(i, "borrow", patron_id, book_id)
    \/ \E i \in ProcIds : \E patron_id \in ConcPatrons(i), book_id \in BookInputs :
          Call(i, "return", patron_id, book_id)
    \/ \E i \in ProcIds : BorrowGetBook(i)
    \/ \E i \in ProcIds : BorrowCount(i)
    \/ \E i \in ProcIds : BorrowInsert(i)
    \/ \E i \in ProcIds : BorrowUpdate(i)
    \/ \E i \in ProcIds : ReturnGetBook(i)
    \/ \E i \in ProcIds : ReturnGetRecord(i)
    \/ \E i \in ProcIds : ReturnFinalize(i)
    \/ \E i \in ProcIds : ReturnUpdate(i)

SpecConc == Init /\ [][NextConc]_vars

(* One patron borrowing up to the cap, the last requests concurrently.     *)

NextConcCap ==
    \/ \E book_id \in 1..NumBooks :
          /\ \A j \in ProcIds : procs[j].pc = "idle"
          /\ borrow_book_by_patron(Patron1, book_id)
          /\ Len(records') <= MaxCapRecords
    \/ \E i \in ProcIds : \E book_id \in 1..NumBooks :
          /\ Len(records) + Cardinality({j \in ProcIds :
                 procs[j].pc \in {"b_get_book", "b_count", "b_insert"}})
                 < MaxCapRecords
          /\ Call(i, "borrow", Patron1, book_id)
    \/ \E i \in ProcIds : BorrowGetBook(i)
    \/ \E i \in ProcIds : BorrowCount(i)
    \/ \E i \in ProcIds : BorrowInsert(i)
    \/ \E i \in ProcIds : BorrowUpdate(i)

SpecConcCap == InitCap /\ [][NextConcCap]_vars

(* One patron's loans, returned by concurrent requests.                     *)

NextConcReturn ==
    \/ \E book_id \in 1..NumBooks :
          /\ \A j \in ProcIds : procs[j].pc = "idle" /\ procs[j].calls = 0
          /\ borrow_book_by_patron(Patron1, book_id)
          /\ Len(records') <= MaxFeeRecords
    \/ \E i \in ProcIds : \E book_id \in BookInputs :
          Call(i, "return", Patron1, book_id)
    \/ \E i \in ProcIds : ReturnGetBook(i)
    \/ \E i \in ProcIds : ReturnGetRecord(i)
    \/ \E i \in ProcIds : ReturnFinalize(i)
    \/ \E i \in ProcIds : ReturnUpdate(i)
    \/ /\ now < LoanTicks + TicksPerDay
       /\ Tick(LoanTicks + TicksPerDay)

SpecConcReturn == Init /\ [][NextConcReturn]_vars

---------------------------------------------------------------------------
(* Properties.                                                             *)

\* C1: for every book, 0 <= available_copies <= total_copies in every
\* reachable state, under any sequence of borrow and return calls, the
\* calls of different patrons running concurrently included.
C1_AvailableWithinTotal ==
    \A b \in DOMAIN books :
        /\ 0 <= books[b].available_copies
        /\ books[b].available_copies <= books[b].total_copies

\* C2: when two borrow calls of two different valid patrons are the only
\* calls made, both against the same book of a single copy, then once both
\* have returned exactly one has succeeded, the other was rejected as 'not
\* available', the book has available_copies = 0 and one active record.
C2_LastCopyOneSuccess ==
    \A i, j \in ProcIds, b \in DOMAIN books :
        ( /\ i # j
          /\ \A k \in ProcIds : procs[k].pc = "idle"
          /\ \A k \in ProcIds \ {i, j} : procs[k].calls = 0
          /\ procs[i].calls = 1 /\ procs[j].calls = 1
          /\ procs[i].op = "borrow" /\ procs[j].op = "borrow"
          /\ procs[i].book_id = b /\ procs[j].book_id = b
          /\ procs[i].patron_id \in ValidPatrons
          /\ procs[j].patron_id \in ValidPatrons
          /\ procs[i].patron_id # procs[j].patron_id
          /\ books[b].total_copies = 1 )
        => /\ procs[i].success # procs[j].success
           /\ \A k \in {i, j} :
                 ~ procs[k].success => procs[k].message = MsgNotAvailable
           /\ books[b].available_copies = 0
           /\ Cardinality(BookActiveIds(records, b)) = 1

\* C3: in every reachable state there is at most one active borrow record
\* per (patron_id, book_id) pair.
C3_OneActiveRecordPerPair ==
    \A patron_id \in ValidPatrons, b \in DOMAIN books :
        Cardinality(ActiveIds(records, patron_id, b)) <= 1

C5_BorrowEffect ==
    [][\A patron_id \in PatronInputs, b \in BookInputs :
          ( /\ last'.op = "borrow" /\ last'.patron_id = patron_id
            /\ last'.book_id = b
            /\ borrow_book_by_patron(patron_id, b)
            /\ ValidPatronId(patron_id)
            /\ b \in DOMAIN books
            /\ books[b].available_copies > 0
            /\ Cardinality(PatronActiveIds(records, patron_id)) < 5 )
          => /\ last'.success
             /\ Len(records') = Len(records) + 1
             /\ \A i \in DOMAIN records : records'[i] = records[i]
             /\ records'[Len(records')].patron_id = patron_id
             /\ records'[Len(records')].book_id = b
             /\ records'[Len(records')].return_date = NULL
             /\ fromisoformat(records'[Len(records')].borrow_date) = now
             /\ fromisoformat(records'[Len(records')].due_date)
                   = fromisoformat(records'[Len(records')].borrow_date)
                        + 14 * TicksPerDay
             /\ books'[b].available_copies = books[b].available_copies - 1
             /\ books'[b].total_copies = books[b].total_copies
             /\ DOMAIN books' = DOMAIN books
             /\ \A c \in DOMAIN books \ {b} : books'[c] = books[c]
      ]_vars

\* C5 witness: a borrow succeeded at a time other than 0, next to an
\* earlier record.
C5_Witness ==
    /\ last.op = "borrow" /\ last.success
    /\ Len(records) >= 2
    /\ now > 0
    /\ records[Len(records)].borrow_date = isoformat(now)

C7_BorrowThenReturn ==
    [][\A patron_id \in ValidPatrons, b \in DOMAIN books :
          ( /\ last.op = "borrow" /\ last.success
            /\ last.patron_id = patron_id /\ last.book_id = b
            /\ records[Len(records)].borrow_date = isoformat(now)
            /\ return_book_by_patron(patron_id, b) )
          => /\ last'.success
             /\ last'.fee = 0
             /\ last'.message = MsgReturnedNoFee
             /\ books'[b].available_copies = last.book[1].available_copies
      ]_vars

\* C8: a return call for a pair without an active record (never borrowed,
\* borrowed only by another patron, already returned) is rejected with the
\* one 'not currently borrowed by you' outcome and changes neither
\* available_copies nor any record; a second return directly after a
\* successful one fails.
C8_ReturnWithoutRecord ==
    [][\A patron_id \in ValidPatrons, b \in DOMAIN books :
          /\ ( /\ last'.op = "return" /\ last'.patron_id = patron_id
               /\ last'.book_id = b
               /\ ActiveIds(records, patron_id, b) = {}
               /\ return_book_by_patron(patron_id, b) )
             => /\ ~ last'.success
                /\ last'.message = MsgNotBorrowed
                /\ books' = books
                /\ records' = records
          /\ ( /\ last.op = "return" /\ last.success
               /\ last.patron_id = patron_id /\ last.book_id = b
               /\ return_book_by_patron(patron_id, b) )
             => /\ ~ last'.success
                /\ last'.message = MsgNotBorrowed
      ]_vars

\* C8 witness: a return was refused as 'not currently borrowed' for a pair
\* whose record is already returned, while another patron holds the book.
C8_Witness ==
    /\ last.op = "return" /\ ~ last.success /\ last.message = MsgNotBorrowed
    /\ \E i \in DOMAIN records :
          /\ records[i].patron_id = last.patron_id
          /\ records[i].book_id = last.book_id
          /\ records[i].return_date # NULL
    /\ \E i \in DOMAIN records :
          /\ records[i].patron_id # last.patron_id
          /\ records[i].book_id = last.book_id
          /\ records[i].return_date = NULL

\* the result of a call that computed a late fee
FeeResult(call) ==
    \/ call.op = "return" /\ call.success
    \/ call.op = "late_fee" /\ call.message \in {StatusCalculated, StatusNotOverdue}

\* C9: for an active record overdue by d whole days, the late fee that the
\* return and the late-fee query compute is min(15.00, 0.50*d) when d <= 7
\* and min(15.00, 3.50 + 1.00*(d-7)) when d > 7, in cents.
C9_LateFeeFormula ==
    [][\A patron_id \in ValidPatrons, b \in DOMAIN books :
          ( /\ last'.op \in {"return", "late_fee"}
            /\ last'.patron_id = patron_id /\ last'.book_id = b
            /\ ActiveIds(records, patron_id, b) # {}
            /\ \/ return_book_by_patron(patron_id, b)
               \/ calculate_late_fee_for_book(patron_id, b)
            /\ now > fromisoformat(get_borrow_record(patron_id, b)[1].due_date) )
          => LET due == fromisoformat(get_borrow_record(patron_id, b)[1].due_date)
                 d == (now - due) \div TicksPerDay
             IN  /\ last'.days_overdue = d
                 /\ d <= 7 => last'.fee = Min(1500, 50 * d)
                 /\ d > 7 => last'.fee = Min(1500, 350 + 100 * (d - 7))
                 /\ d = 3 => last'.fee = 150
                 /\ d = 10 => last'.fee = 650
                 /\ d = 30 => last'.fee = 1500
      ]_vars

\* C9 witness: the late-fee query answered 15.00 for a record 30 days
\* overdue.
C9_Witness ==
    /\ last.op = "late_fee" /\ last.message = StatusCalculated
    /\ last.days_overdue = 30 /\ last.fee = 1500
    /\ ActiveIds(records, last.patron_id, last.book_id) # {}

\* C10: the late fee is monotonically non-decreasing in the overdue days d,
\* never exceeds 15.00, and fee(0) = 0.00, fee(7) = 3.50, fee(8) = 4.50 and
\* fee(d) = 15.00 for every d >= 23.
C10_FeeMonotoneCapped ==
    /\ [][( /\ FeeResult(last) /\ FeeResult(last')
            /\ last.days_overdue <= last'.days_overdue )
          => last.fee <= last'.fee]_vars
    /\ [](FeeResult(last) =>
            /\ last.fee <= 1500
            /\ last.days_overdue = 0 => last.fee = 0
            /\ last.days_overdue = 7 => last.fee = 350
            /\ last.days_overdue = 8 => last.fee = 450
            /\ last.days_overdue >= 23 => last.fee = 1500)

\* C10 witness: a return 24 days overdue was charged the capped 15.00.
C10_Witness ==
    /\ last.op = "return" /\ last.success
    /\ last.days_overdue = 24 /\ last.fee = 1500

\* the fee the late-fee query answers for a record due at due_date
QueryFeeAt(current_date, due_date) ==
    IF current_date <= due_date
    THEN 0
    ELSE QueryLateFee(days(current_date - due_date))

\* the fees a return would report for the patron's active records among
\* the first n records, added up
RECURSIVE ReturnFeesUpTo(_, _)
ReturnFeesUpTo(n, patron_id) ==
    IF n = 0
    THEN 0
    ELSE (IF records[n].patron_id = patron_id /\ records[n].return_date = NULL
          THEN ReturnLateFee(now, fromisoformat(records[n].due_date))
          ELSE 0)
         + ReturnFeesUpTo(n - 1, patron_id)

\* C11: for the same active record and the same reference time, the fee a
\* return reports, the fee_amount of the late-fee query and the record's
\* contribution to total_late_fees of the status report are equal, for
\* every overdue duration.
C11_FeePathsAgree ==
    [][\A patron_id \in ValidPatrons :
          /\ \A b \in DOMAIN books :
                ( /\ last'.op \in {"return", "late_fee"}
                  /\ last'.patron_id = patron_id /\ last'.book_id = b
                  /\ ActiveIds(records, patron_id, b) # {} )
                => LET due_date ==
                           fromisoformat(get_borrow_record(patron_id, b)[1].due_date)
                       row == [book_id |-> b, due_date |-> due_date,
                               is_overdue |-> now > due_date]
                   IN  /\ return_book_by_patron(patron_id, b) =>
                             /\ last'.fee = QueryFeeAt(now, due_date)
                             /\ last'.fee = StatusLateFee(row, now)
                       /\ calculate_late_fee_for_book(patron_id, b) =>
                             /\ last'.fee = ReturnLateFee(now, due_date)
                             /\ last'.fee = StatusLateFee(row, now)
          /\ ( /\ last'.op = "status" /\ last'.patron_id = patron_id
               /\ get_patron_status_report(patron_id) )
             => last'.fee = ReturnFeesUpTo(Len(records), patron_id)
      ]_vars

\* C11 witness: the status report totals 15.00 for a single active record
\* that is 25 days overdue.
C11_Witness ==
    /\ last.op = "status" /\ last.success
    /\ last.fee = 1500
    /\ Len(last.currently_borrowed) = 1
    /\ last.currently_borrowed[1].days_overdue = 25

\* C12: a borrow or return call during which a store write fails reports
\* failure and leaves no effect: no new record and available_copies
\* unchanged after a failed borrow, the record still active and
\* available_copies unchanged after a failed return.
C12_FailedCallNoEffect ==
    [][\A patron_id \in ValidPatrons, b \in DOMAIN books :
          \A write1 \in BOOLEAN, write2 \in BOOLEAN :
             ( /\ ~ (write1 /\ write2)
               /\ \/ BorrowHandler(patron_id, b, write1, write2)
                  \/ ReturnHandler(patron_id, b, write1, write2) )
             => /\ ~ last'.success
                /\ records' = records
                /\ books' = books
      ]_vars

\* an ISBN of exactly 13 ASCII digits
IsIsbn13(isbn) == Len(isbn) = 13 /\ \A i \in 1..Len(isbn) : isbn[i] \in AsciiDigits

\* the outcome the validation order title, author, ISBN form, count,
\* duplicate ISBN gives a call
ExpectedAddMessage(title, author, isbn, total_copies) ==
    IF strip(title) = <<>> THEN MsgTitleRequired
    ELSE IF Len(strip(title)) > 200 THEN MsgTitleTooLong
    ELSE IF strip(author) = <<>> THEN MsgAuthorRequired
    ELSE IF Len(strip(author)) > 100 THEN MsgAuthorTooLong
    ELSE IF ~ IsIsbn13(isbn) THEN MsgIsbnLength
    ELSE IF ~ (total_copies.type = "int" /\ total_copies.value > 0)
    THEN MsgCopies
    ELSE IF \E b \in DOMAIN books : books[b].isbn = isbn THEN MsgIsbnExists
    ELSE MsgBookAdded

\* C13: add_book_to_catalog checks title, author, ISBN form, total_copies
\* and duplicate ISBN in this order and answers with the reason of the
\* first check that fails, each check having its own reason; a title of
\* exactly 200 and an author of exactly 100 characters pass.
C13_AddValidationOrder ==
    [][\A args \in AddInputs :
          add_book_to_catalog(args[1], args[2], args[3], args[4]) =>
             /\ last'.message
                   = ExpectedAddMessage(args[1], args[2], args[3], args[4])
             /\ last'.success = (last'.message = MsgBookAdded)
      ]_vars

\* C14: add_book_to_catalog rejects every ISBN that is not exactly 13 ASCII
\* digits and inserts nothing then, so that every book of the catalog has
\* an ISBN of exactly 13 digits.
C14_IsbnThirteenDigits ==
    /\ [][\A args \in AddInputs :
             ( /\ ~ IsIsbn13(args[3])
               /\ add_book_to_catalog(args[1], args[2], args[3], args[4]) )
             => /\ ~ last'.success
                /\ books' = books
         ]_vars
    /\ [](\A b \in DOMAIN books : IsIsbn13(books[b].isbn))

\* C15: no two books of the catalog share an ISBN; an add whose ISBN is
\* already in the catalog is rejected and leaves the catalog as it was,
\* with the duplicate reason when the call passes the earlier checks.
C15_IsbnUnique ==
    /\ [][\A args \in AddInputs :
             ( /\ last'.op = "add_book"
               /\ \E b \in DOMAIN books : books[b].isbn = args[3]
               /\ add_book_to_catalog(args[1], args[2], args[3], args[4]) )
             => /\ ~ last'.success
                /\ books' = books
                /\ ( /\ strip(args[1]) # <<>> /\ Len(strip(args[1])) <= 200
                     /\ strip(args[2]) # <<>> /\ Len(strip(args[2])) <= 100
                     /\ args[4].type = "int" /\ args[4].value > 0 )
                   => last'.message = MsgIsbnExists
         ]_vars
    /\ [](\A b, c \in DOMAIN books : books[b].isbn = books[c].isbn => b = c)

\* C15 witness: an add was refused as a duplicate while the catalog holds
\* two books, the first of them lent.
C15_Witness ==
    /\ last.op = "add_book" /\ ~ last.success
    /\ last.message = MsgIsbnExists
    /\ Len(books) = 2
    /\ books[1].available_copies < books[1].total_copies

\* C16: a successful add_book_to_catalog call inserts exactly one book,
\* with the trimmed title and author, the given total_copies and
\* available_copies = total_copies; the existing books and all borrow
\* records are unchanged.
C16_AddEffect ==
    [][\A args \in AddInputs :
          ( /\ last'.op = "add_book" /\ last'.success
            /\ add_book_to_catalog(args[1], args[2], args[3], args[4]) )
          => /\ Len(books') = Len(books) + 1
             /\ \A b \in DOMAIN books : books'[b] = books[b]
             /\ books'[Len(books')].title = strip(args[1])
             /\ books'[Len(books')].author = strip(args[2])
             /\ books'[Len(books')].isbn = args[3]
             /\ books'[Len(books')].total_copies = args[4].value
             /\ books'[Len(books')].available_copies = args[4].value
             /\ records' = records
      ]_vars

\* C16 witness: the second book was added, with a title and author that
\* were given with blanks around them, while the first book is lent.
C16_Witness ==
    /\ last.op = "add_book" /\ last.success
    /\ Len(books) = 2
    /\ books[2].title = <<"C", "o", "d", "e">>
    /\ books[2].author = <<"B", "o", "b">>
    /\ books[2].available_copies = books[2].total_copies
    /\ Len(records) = 1
    /\ books[1].available_copies < books[1].total_copies

\* C17: a borrow call rejected for a malformed patron id, an unknown book
\* id, a book without an available copy or a reached borrowing cap leaves
\* the store unchanged: no record is inserted and no available_copies
\* changes.
C17_RejectedBorrowNoEffect ==
    /\ [][\A patron_id \in PatronInputs, b \in BookInputs :
          ( /\ last'.op = "borrow" /\ last'.patron_id = patron_id
            /\ last'.book_id = b
            /\ \/ ~ (Len(patron_id) = 6 /\ \A i \in 1..Len(patron_id) :
                                               patron_id[i] \in AsciiDigits)
               \/ b \notin DOMAIN books
               \/ books[b].available_copies = 0
               \/ Cardinality(PatronActiveIds(records, patron_id)) >= 5
            /\ borrow_book_by_patron(patron_id, b) )
          => /\ ~ last'.success
             /\ last'.message \in {MsgInvalidPatron, MsgBookNotFound,
                                   MsgNotAvailable, MsgLimit}
             /\ records' = records
             /\ books' = books
      ]_vars
    /\ [][\A patron_id \in PatronInputs, b \in BookInputs :
             ( /\ last'.op = "borrow" /\ ~ last'.success
               /\ borrow_book_by_patron(patron_id, b) )
             => /\ records' = records
                /\ books' = books
         ]_vars

\* C17 witness: a patron who holds loans was refused a book that has no
\* copy left, and the book still has none.
C17_Witness ==
    /\ last.op = "borrow" /\ ~ last.success
    /\ last.message = MsgNotAvailable
    /\ books[last.book_id].available_copies = 0
    /\ Cardinality(PatronActiveIds(records, last.patron_id)) = 4

\* C18: calculate_late_fee_for_book never mutates anything: in every
\* outcome the books and borrow records after the call equal those before
\* it; and a return that follows the query, the record being overdue by
\* the same number of days, reports the fee the query answered.
C18_QueryReadOnly ==
    [][\A patron_id \in PatronInputs, b \in BookInputs :
          /\ ( /\ last'.op = "late_fee" /\ last'.patron_id = patron_id
               /\ last'.book_id = b
               /\ calculate_late_fee_for_book(patron_id, b) )
             => /\ books' = books
                /\ records' = records
                /\ last'.message \in {MsgInvalidPatron, MsgBookNotFound,
                                      StatusNotBorrowed, StatusNotOverdue,
                                      StatusCalculated}
          /\ ( /\ last.op = "late_fee" /\ last.patron_id = patron_id
               /\ last.book_id = b
               /\ last.message \in {StatusNotOverdue, StatusCalculated}
               /\ last'.op = "return"
               /\ return_book_by_patron(patron_id, b)
               /\ last'.days_overdue = last.days_overdue )
             => /\ last'.success
                /\ last'.fee = last.fee
      ]_vars

\* C18 witness: the query answered 6.50 for a record 10 days overdue, and
\* the record is still active and the copy still lent.
C18_Witness ==
    /\ last.op = "late_fee" /\ last.message = StatusCalculated
    /\ last.days_overdue = 10 /\ last.fee = 650
    /\ ActiveIds(records, last.patron_id, last.book_id) # {}
    /\ books[last.book_id].available_copies
          = books[last.book_id].total_copies - 1

PolicyFee(d) == Min(1500, IF d <= 7 THEN 50 * d ELSE 350 + 100 * (d - 7))

\* the policy fees of the patron's active records among the first n records
\* whose due date is before the reference time, added up
RECURSIVE OverdueFeesUpTo(_, _)
OverdueFeesUpTo(n, patron_id) ==
    IF n = 0
    THEN 0
    ELSE (IF /\ records[n].patron_id = patron_id
             /\ records[n].return_date = NULL
             /\ fromisoformat(records[n].due_date) < now
          THEN PolicyFee((now - fromisoformat(records[n].due_date))
                            \div TicksPerDay)
          ELSE 0)
         + OverdueFeesUpTo(n - 1, patron_id)

PatronRecordIds(recs, patron_id) ==
    {i \in DOMAIN recs : recs[i].patron_id = patron_id}

C22_GatewayContact ==
    [][\A patron_id \in {Patron1, PatronAlpha}, b \in {1, NumBooks + 1} :
          \A outcome \in GatewayOutcomes :
             ( /\ last'.op = "pay"
               /\ last'.patron_id = patron_id /\ last'.book_id = b
               /\ pay_late_fees(patron_id, b, outcome) )
             => LET record == get_borrow_record(patron_id, b)
                    fee == IF record = <<>> \/ b \notin DOMAIN books
                           THEN 0
                           ELSE QueryFeeAt(now, fromisoformat(record[1].due_date))
                IN  IF /\ Len(patron_id) = 6
                       /\ \A k \in 1..Len(patron_id) : patron_id[k] \in AsciiDigits
                       /\ b \in DOMAIN books
                       /\ fee > 0
                    THEN /\ Len(last'.gateway_calls) = 1
                         /\ last'.gateway_calls[1].amount = fee
                         /\ last'.gateway_calls[1].patron_id = patron_id
                         /\ last'.gateway_calls[1].description = b
                         /\ last'.success <=> (outcome = "approved")
                    ELSE /\ last'.gateway_calls = <<>>
                         /\ ~ last'.success
                         /\ last'.transaction_id = NULL
      ]_vars

\* C22 witness: a payment of the 1.00 late fee of a loan two days overdue,
\* one charge submitted and approved.
C22_Witness ==
    /\ last.op = "pay" /\ last.success
    /\ Len(last.gateway_calls) = 1
    /\ last.gateway_calls[1].amount = 100
    /\ ActiveIds(records, last.patron_id, last.book_id) # {}

\* C23: the late-fee query and the patron status are functions of the store
\* state and their arguments: a call answers what the previous call with
\* the same arguments answered when the store has not changed in between
\* (only the wall clock has advanced), whatever the wall-clock time of the
\* two calls.  (last is the result of the latest call, so a query or status
\* call that follows one with the same arguments runs on the same store.)
C23_Deterministic ==
    [][/\ \A patron_id \in {Patron1, PatronAlpha}, b \in {1, NumBooks + 1} :
             ( /\ last.op = "late_fee" /\ last'.op = "late_fee"
               /\ last.patron_id = patron_id /\ last.book_id = b
               /\ last'.patron_id = patron_id /\ last'.book_id = b
               /\ calculate_late_fee_for_book(patron_id, b) )
             => last' = last
       /\ ( /\ last.op = "status" /\ last'.op = "status"
            /\ last.patron_id = Patron1 /\ last'.patron_id = Patron1
            /\ get_patron_status_report(Patron1) )
          => last' = last
      ]_vars

\* C24: in every reachable state, the states reached by concurrent borrow
\* calls of the same patron on different books with interleaved store
\* accesses included, no patron has more than 5 active borrow records.
C24_CapUnderConcurrency ==
    \A patron_id \in ValidPatrons :
       Cardinality(PatronActiveIds(records, patron_id)) <= BorrowLimit

\* the reason the first failing check of a borrow reports, the checks taken
\* in the order patron id format, book exists, a copy available, active
\* count below the cap; "" when all four pass
ExpectedBorrowMessage(patron_id, b) ==
    IF ~ (Len(patron_id) = 6
            /\ \A i \in 1..Len(patron_id) : patron_id[i] \in AsciiDigits)
    THEN MsgInvalidPatron
    ELSE IF b \notin DOMAIN books
    THEN MsgBookNotFound
    ELSE IF ~ (books[b].available_copies > 0)
    THEN MsgNotAvailable
    ELSE IF ~ (Cardinality(PatronActiveIds(records, patron_id)) < 5)
    THEN MsgLimit
    ELSE ""

C25_WitnessInvalidId ==
    /\ last.op = "borrow" /\ ~ last.success
    /\ last.message = MsgInvalidPatron
    /\ last.book_id \notin DOMAIN books

\* C26: a borrow record goes from none to active to returned, and returned
\* is final: no step removes a record or changes its patron, book, borrow
\* date or due date; once a record has a return timestamp no later borrow,
\* return or query changes that timestamp or makes the record active again;
\* a record gets its return timestamp from a successful return of its pair;
\* and a successful borrow, of a pair that has a returned record too, adds
\* one new active record and reuses none.
C26_RecordLifecycle ==
    [][/\ Len(records') >= Len(records)
       /\ \A i \in DOMAIN records :
             /\ records'[i].patron_id = records[i].patron_id
             /\ records'[i].book_id = records[i].book_id
             /\ records'[i].borrow_date = records[i].borrow_date
             /\ records'[i].due_date = records[i].due_date
             /\ records[i].return_date # NULL => records'[i] = records[i]
             /\ records'[i].return_date # records[i].return_date
                   => /\ last'.op = "return" /\ last'.success
                      /\ last'.patron_id = records[i].patron_id
                      /\ last'.book_id = records[i].book_id
                      /\ records'[i].return_date = isoformat(now)
       /\ Len(records') > Len(records)
             => /\ last'.op = "borrow"
                /\ Len(records') = Len(records) + 1
                /\ records'[Len(records')].return_date = NULL
                /\ records'[Len(records')].patron_id = last'.patron_id
                /\ records'[Len(records')].book_id = last'.book_id
       /\ (last'.op = "borrow" /\ last'.success /\ books' # books)
             => Len(records') = Len(records) + 1
      ]_vars

\* C26 witness: a patron borrowed again a book they had returned: the
\* returned record keeps its return timestamp beside the new active record
\* of the same pair.
C26_Witness ==
    /\ last.op = "borrow" /\ last.success
    /\ \E i \in DOMAIN records, j \in DOMAIN records :
          /\ i < j
          /\ records[i].patron_id = last.patron_id
          /\ records[i].book_id = last.book_id
          /\ records[j].patron_id = last.patron_id
          /\ records[j].book_id = last.book_id
          /\ records[i].return_date # NULL
          /\ records[j].return_date = NULL

C27_WitnessQuery ==
    /\ last.op = "late_fee" /\ last.days_overdue = 1 /\ last.fee = 50
    /\ ActiveIds(records, last.patron_id, last.book_id) # {}
    /\ now = fromisoformat(get_borrow_record(last.patron_id, last.book_id)[1].due_date)
                + TicksPerDay + 1

\* C28: with the operations run one at a time and no store failure, in
\* every reachable state and for every book, available_copies plus the
\* number of active borrow records of the book equals total_copies, also
\* after the same patron has borrowed the same book more than once before
\* returning.
C28_CopiesConserved ==
    \A b \in DOMAIN books :
        books[b].available_copies + Cardinality(BookActiveIds(records, b))
           = books[b].total_copies

\* C29: when two return_book_by_patron calls for the same (patron_id,
\* book_id) pair, which holds one active record, run concurrently (they are
\* the only return calls made), then once both have returned exactly one
\* reports success and available_copies has increased by exactly 1 (the
\* book has all its copies back); and available_copies never exceeds
\* total_copies on the way.
C29_ConcurrentReturns ==
    \A i, j \in ProcIds, b \in DOMAIN books :
        ( /\ i # j
          /\ \A k \in ProcIds \ {i, j} : procs[k].calls = 0
          /\ procs[i].calls = 1 /\ procs[j].calls <= 1
          /\ procs[i].op = "return" /\ procs[i].book_id = b
          /\ procs[i].patron_id = Patron1
          /\ procs[j].calls = 1 =>
                /\ procs[j].op = "return" /\ procs[j].book_id = b
                /\ procs[j].patron_id = Patron1
          /\ Len(records) = 1
          /\ records[1].patron_id = Patron1 /\ records[1].book_id = b )
        => /\ books[b].available_copies <= books[b].total_copies
           /\ ( /\ procs[j].calls = 1
                /\ procs[i].pc = "idle" /\ procs[j].pc = "idle" )
              => /\ procs[i].success # procs[j].success
                 /\ books[b].available_copies = books[b].total_copies
                 /\ records[1].return_date # NULL

\* C30: for a pair with an active record, calculate_late_fee_for_book
\* answers the 'Book is not overdue.' status exactly when it answers
\* days_overdue = 0; whenever it answers 'Late fee calculated',
\* days_overdue >= 1 and fee_amount > 0.
C30_StatusMatchesDays ==
    [][\A patron_id \in ValidPatrons, b \in DOMAIN books :
          ( /\ last'.op = "late_fee"
            /\ last'.patron_id = patron_id /\ last'.book_id = b
            /\ ActiveIds(records, patron_id, b) # {}
            /\ calculate_late_fee_for_book(patron_id, b) )
          => /\ last'.message \in {StatusNotOverdue, StatusCalculated}
             /\ last'.message = StatusNotOverdue <=> last'.days_overdue = 0
             /\ last'.message = StatusCalculated
                   => last'.days_overdue >= 1 /\ last'.fee > 0
      ]_vars

====
